---- MODULE Spec2Model ----
(***************************************************************************)
(* Model of agent/collector/metrics.go: MetricsCollector.Collect and the   *)
(* helpers it calls (createSnapshot, lightenSnapshot, getBlockList,        *)
(* getBlockMetadata, tarballSnapshot, downloadSnapshot, removeResource).   *)
(*                                                                         *)
(* One run of Collect per host.  The SSHCollectingAgent is the             *)
(* environment: every call on it answers nondeterministically, and the     *)
(* agent records the calls it received in ops[h].                          *)
(*                                                                         *)
(* Remote paths are sequences of path components: <<"var","data">> is      *)
(* /var/data.  Errors are records [msg, path, parts]: msg is the fixed     *)
(* text of the message, path the path it names, parts the variable texts   *)
(* concatenated into it.                                                   *)
(***************************************************************************)
EXTENDS Integers, Sequences, FiniteSets, TLC

(***************************************************************************)
(* Bounds of the model.                                                    *)
(***************************************************************************)
\* the block listing returns 0..MaxBlocks block directories
MaxBlocks == 2

\* names of the block directories a listing can return, in listing order
BlockNames == <<"01A", "01B", "01C", "01D">>

\* <<minTime, maxTime>> pairs (epoch milliseconds) a meta.json can carry:
\* before, inside, across and after the windows below, touching their bounds,
\* negative, and with minTime > maxTime
BlockRanges ==
    {<<-1500, -1>>, <<0, 500>>, <<0, 1000>>, <<1000, 1000>>, <<1000, 10000>>,
     <<500, 20000>>, <<10000, 20000>>, <<10000, 15000>>, <<15000, 20000>>,
     <<20000, 0>>, <<15000, 1000>>, <<-1, 1001>>}

\* versions a meta.json can carry (0: the field is absent)
BlockVersions == {0, 1, 2}

\* the requested windows <<from, to>>, each bound <<epoch milliseconds, extra nanoseconds>>
Windows ==
    {<<<<1000, 0>>, <<15000, 0>>>>, <<<<1000, 1>>, <<15000, 1>>>>,
     <<<<-1000, 0>>, <<1000, 0>>>>, <<<<1000, 0>>, <<1000, 0>>>>,
     <<<<15000, 0>>, <<1000, 0>>>>, <<<<-1500, 0>>, <<20000, 0>>>>}

\* snapshot names the remote Prometheus can answer
SnapshotNames == {"20210101T000000Z-abc"}

\* standard-error texts of a remote command ("" is empty)
StderrTexts == {"", "permission denied"}

\* the hosts Collect can be run against
Hosts == {"node1", "node2"}

(***************************************************************************)
(* Constants of the program.                                               *)
(***************************************************************************)
prometheusSnapshotSuccess == "success"
prometheusSnapshotFolder == "snapshots"
temporalSnapshotTarballPath == <<"tmp", "InstaclustrCollection.tar">>
MillisPerSecond == 1000
NanosPerMilli == 1000000
SupportedVersion == 1
DefaultDataPath == <<"var", "data">>

(***************************************************************************)
(* Errors.                                                                 *)
(***************************************************************************)
Nil == [msg |-> "", path |-> <<>>, parts |-> <<>>]

NewError(msg, path, parts) == [msg |-> msg, path |-> path, parts |-> parts]

\* the error value an agent call returns when the transport fails
TransportError == NewError("ssh: transport failure", <<>>, <<>>)

\* err.Error(): the texts an error's message is made of
ErrorText(e) == <<e.msg>> \o e.parts

(***************************************************************************)
(* time.Time, as far as the program uses it: seconds and nanoseconds since *)
(* the epoch, 0 <= nsec < 10^9.                                            *)
(***************************************************************************)
NanosPerSecond == MillisPerSecond * NanosPerMilli

\* Go's integer division truncates toward zero; % takes the dividend's sign
Quot(a, b) == IF a >= 0 THEN a \div b ELSE -((-a) \div b)
Rem(a, b) == a - b * Quot(a, b)

\* time.Unix(sec, nsec): nsec outside [0, 10^9) is carried into sec
Unix(sec, nsec) ==
    IF nsec < 0 \/ nsec >= NanosPerSecond
    THEN LET n == Quot(nsec, NanosPerSecond)
             s == sec + n
             ns == nsec - n * NanosPerSecond
         IN IF ns < 0 THEN [sec |-> s - 1, nsec |-> ns + NanosPerSecond]
                      ELSE [sec |-> s, nsec |-> ns]
    ELSE [sec |-> sec, nsec |-> nsec]

\* t.After(u), t.Before(u) for times without a monotonic clock reading
After(t, u) == t.sec > u.sec \/ (t.sec = u.sec /\ t.nsec > u.nsec)
Before(t, u) == t.sec < u.sec \/ (t.sec = u.sec /\ t.nsec < u.nsec)

\* BlockTimestamp with the milliseconds within the second dropped
BlockTimestamp_wholeSeconds(ms) == Unix(Quot(ms, MillisPerSecond), 0)

\* the timestamp of a block bound given in epoch milliseconds
BlockTimestamp(ms) == Unix(Quot(ms, MillisPerSecond), Rem(ms, MillisPerSecond) * NanosPerMilli)

\* the time.Time a caller builds for a window bound
WindowTime(w) ==
    LET fl == w[1] \div MillisPerSecond
    IN [sec |-> fl, nsec |-> (w[1] - fl * MillisPerSecond) * NanosPerMilli + w[2]]

(***************************************************************************)
(* filepath.Join: empty elements are ignored, the rest joined.             *)
(***************************************************************************)
PathElem(name) == IF name = "" THEN <<>> ELSE <<name>>

SnapshotPath(dataPath, snapshot) ==
    dataPath \o PathElem(prometheusSnapshotFolder) \o PathElem(snapshot)

(***************************************************************************)
(* The SSHCollectingAgent's answers.  ExecuteCommand returns               *)
(* [sout, serr, err]: err is TRUE when the transport failed.               *)
(***************************************************************************)
Response(sout, serr, err) == [sout |-> sout, serr |-> serr, err |-> err]

\* standard output of the snapshot request: not JSON, or a JSON document
NotJSON == [json |-> FALSE, status |-> "", name |-> "", error |-> ""]
CreateOutputs ==
    {NotJSON}
    \cup {[json |-> TRUE, status |-> prometheusSnapshotSuccess, name |-> n, error |-> ""] :
            n \in SnapshotNames}
    \cup {[json |-> TRUE, status |-> "error", name |-> "", error |-> "out of space"]}

CreateResponses ==
    {Response(NotJSON, "", TRUE)}
    \cup {Response(o, e, FALSE) : o \in CreateOutputs, e \in StderrTexts}

\* standard output of "ls -d src/*/": the first n block directories of src
Listing(dir, n) == [i \in 1..n |-> dir \o <<BlockNames[i]>>]

ListResponses(dir) ==
    {Response(<<>>, "", TRUE)}
    \cup {Response(Listing(dir, n), e, FALSE) : n \in 0..MaxBlocks, e \in StderrTexts}

\* standard output of "cat block/meta.json"
ZeroMetadata == [Version |-> 0, MinTime |-> 0, MaxTime |-> 0]
NotMetadata == [json |-> FALSE, doc |-> ZeroMetadata]
MetadataOutputs ==
    {NotMetadata}
    \cup {[json |-> TRUE, doc |-> [Version |-> v, MinTime |-> r[1], MaxTime |-> r[2]]] :
            v \in BlockVersions, r \in BlockRanges}

MetadataResponses ==
    {Response(NotMetadata, "", TRUE)}
    \cup {Response(o, "", FALSE) : o \in MetadataOutputs}
    \cup {Response(NotMetadata, e, FALSE) : e \in StderrTexts \ {""}}

\* answers of commands whose standard output the program does not read
PlainResponses ==
    {Response(<<>>, "", TRUE)} \cup {Response(<<>>, e, FALSE) : e \in StderrTexts}

\* what the agent records of one call
Call(op, path, dest, resp) ==
    [op |-> op, path |-> path, dest |-> dest, err |-> resp.err, serr |-> resp.serr]

(***************************************************************************)
(* The helpers of Collect, as functions of the agent's answer.             *)
(***************************************************************************)
\* createSnapshot without the test of stderr
createSnapshot_ignoringStderr(resp) ==
    IF resp.err THEN [name |-> "", err |-> TransportError, response |-> NotJSON]
    ELSE IF ~resp.sout.json
    THEN [name |-> "", response |-> NotJSON,
          err |-> NewError("Failed to unmarshal snapshot command output", <<>>,
                           <<"invalid character">>)]
    ELSE IF resp.sout.status # prometheusSnapshotSuccess
    THEN [name |-> "", response |-> resp.sout,
          err |-> NewError("Failed to create prometheus snapshot (status)", <<>>,
                           <<resp.sout.status, resp.sout.error>>)]
    ELSE [name |-> resp.sout.name, response |-> resp.sout, err |-> Nil]

\* createSnapshot without the test of the status
createSnapshot_anyStatus(resp) ==
    IF resp.err THEN [name |-> "", err |-> TransportError, response |-> NotJSON]
    ELSE IF resp.serr # ""
    THEN [name |-> "", response |-> NotJSON,
          err |-> NewError("Failed to create prometheus snapshot: ", <<>>, <<resp.serr>>)]
    ELSE IF ~resp.sout.json
    THEN [name |-> "", response |-> NotJSON,
          err |-> NewError("Failed to unmarshal snapshot command output", <<>>,
                           <<"invalid character">>)]
    ELSE [name |-> resp.sout.name, response |-> resp.sout, err |-> Nil]

\* createSnapshot: [name, err], and response, its parsed standard output
createSnapshot(resp) ==
    IF resp.err THEN [name |-> "", err |-> TransportError, response |-> NotJSON]
    ELSE IF resp.serr # ""
    THEN [name |-> "", response |-> NotJSON,
          err |-> NewError("Failed to create prometheus snapshot: ", <<>>, <<resp.serr>>)]
    ELSE IF ~resp.sout.json
    THEN [name |-> "", response |-> NotJSON,
          err |-> NewError("Failed to unmarshal snapshot command output", <<>>,
                           <<"invalid character">>)]
    ELSE IF resp.sout.status # prometheusSnapshotSuccess
    THEN [name |-> "", response |-> resp.sout,
          err |-> NewError("Failed to create prometheus snapshot (status)", <<>>,
                           <<resp.sout.status, resp.sout.error>>)]
    ELSE [name |-> resp.sout.name, response |-> resp.sout, err |-> Nil]

\* getBlockList without the test of stderr
getBlockList_ignoringStderr(resp) ==
    IF resp.err THEN [blocks |-> <<>>, err |-> TransportError]
    ELSE [blocks |-> resp.sout, err |-> Nil]

\* getBlockList: [blocks, err]
getBlockList(resp) ==
    IF resp.err THEN [blocks |-> <<>>, err |-> TransportError]
    ELSE IF resp.serr # ""
    THEN [blocks |-> <<>>,
          err |-> NewError("Failed to get block list of prometheus snapshot: ", <<>>,
                           <<resp.serr>>)]
    ELSE [blocks |-> resp.sout, err |-> Nil]

\* getBlockMetadata: [metadata, err]
getBlockMetadata(resp) ==
    IF resp.err THEN [metadata |-> ZeroMetadata, err |-> TransportError]
    ELSE IF resp.serr # ""
    THEN [metadata |-> ZeroMetadata,
          err |-> NewError("Failed to get block metadata: ", <<>>, <<resp.serr>>)]
    ELSE IF ~resp.sout.json
    THEN [metadata |-> ZeroMetadata,
          err |-> NewError("Failed to unmarshal block metadata", <<>>,
                           <<"invalid character">>)]
    ELSE [metadata |-> resp.sout.doc, err |-> Nil]

\* tarballSnapshot without the test of stderr
tarballSnapshot_ignoringStderr(resp) == IF resp.err THEN TransportError ELSE Nil

\* tarballSnapshot: the error it returns
tarballSnapshot(resp) ==
    IF resp.err THEN TransportError
    ELSE IF resp.serr # ""
    THEN NewError("Failed to create snapshot tarball: ", <<>>, <<resp.serr>>)
    ELSE Nil

\* downloadSnapshot: the error it returns, given whether ReceiveDir failed
downloadSnapshot(failed) ==
    IF failed
    THEN NewError("Failed to receive snapshot", <<>>, ErrorText(TransportError))
    ELSE Nil

\* removeResource: the error it returns; the command's output is discarded
removeResource(path, resp) ==
    IF resp.err
    THEN NewError("Failed to remove resource", path, ErrorText(TransportError))
    ELSE Nil

\* skipsBlock without the test of the version
skipsBlock_anyVersion(e, m) == e # Nil

\* lightenSnapshot, lines 179-187: the block is left alone without a test
skipsBlock(e, m) == e # Nil \/ m.Version # SupportedVersion

\* the test that keeps only blocks lying wholly inside the window
fallsIntoTheSelectedTimeRange_contained(metadata, from, to) ==
    LET blockMinTimestamp == BlockTimestamp(metadata.MinTime)
        blockMaxTimestamp == BlockTimestamp(metadata.MaxTime)
    IN /\ (After(blockMinTimestamp, from) /\ After(blockMaxTimestamp, from))
       /\ (Before(blockMinTimestamp, to) /\ Before(blockMaxTimestamp, to))

\* the test of lightenSnapshot on a block's bounds
fallsIntoTheSelectedTimeRange(metadata, from, to) ==
    LET blockMinTimestamp == BlockTimestamp(metadata.MinTime)
        blockMaxTimestamp == BlockTimestamp(metadata.MaxTime)
    IN /\ (After(blockMinTimestamp, from) \/ After(blockMaxTimestamp, from))
       /\ (Before(blockMinTimestamp, to) \/ Before(blockMaxTimestamp, to))

(***************************************************************************)
(* State.  collector[h] is the MetricsCollector used for host h; the other *)
(* variables are the locals of the run of Collect against h, and ops[h] is *)
(* the sequence of calls the agent of h has received.                      *)
(***************************************************************************)
VARIABLES
    collector,      \* [CopyCompressed, DataPath, Path, TimestampFrom, TimestampTo]
    pc,             \* where the run is: "idle", a step of Collect, or "done"
    err,            \* Collect: err
    response,       \* createSnapshot: response, the parsed standard output
    sout,           \* createSnapshot: sout, the standard output as received
    snapshot,       \* Collect: snapshot
    src,            \* Collect: src
    resourceName,   \* Collect: resourceName
    tarballErr,     \* Collect: tarballErr
    lightenErr,     \* Collect: the err lightenSnapshot returned
    blocks,         \* lightenSnapshot: blocks
    index,          \* lightenSnapshot: how many blocks the loop has gone through
    blockErr,       \* lightenSnapshot: the err of getBlockMetadata, this iteration
    metadata,       \* lightenSnapshot: metadata, this iteration
    falls,          \* lightenSnapshot: fallsIntoTheSelectedTimeRange, this iteration
    ret,            \* what Collect returned
    ops             \* the agent: the calls received, in order

vars == <<collector, pc, err, response, sout, snapshot, src, resourceName, tarballErr, lightenErr,
          blocks, index, blockErr, metadata, falls, ret, ops>>

collectLocals == <<err, response, sout, snapshot, src, resourceName, tarballErr, lightenErr, ret>>
lightenLocals == <<blocks, index, blockErr, metadata, falls>>

\* a collector with the default settings
DefaultCollector ==
    [CopyCompressed |-> TRUE, DataPath |-> DefaultDataPath, Path |-> <<"out">>,
     TimestampFrom |-> WindowTime(<<0, 0>>), TimestampTo |-> WindowTime(<<0, 0>>)]

Collectors(h) ==
    {[CopyCompressed |-> c, DataPath |-> DefaultDataPath, Path |-> <<"out", h>>,
      TimestampFrom |-> WindowTime(w[1]), TimestampTo |-> WindowTime(w[2])] :
        c \in BOOLEAN, w \in Windows}

\* Collect is about to be called for the hosts of `active`
InitRuns(active) ==
    /\ collector \in {c \in [Hosts -> UNION {Collectors(h) : h \in Hosts} \cup {DefaultCollector}] :
                        \A h \in Hosts : IF h \in active THEN c[h] \in Collectors(h)
                                                         ELSE c[h] = DefaultCollector}
    /\ pc = [h \in Hosts |-> IF h \in active THEN "connect" ELSE "idle"]
    /\ err = [h \in Hosts |-> Nil]
    /\ response = [h \in Hosts |-> NotJSON]
    /\ sout = [h \in Hosts |-> NotJSON]
    /\ snapshot = [h \in Hosts |-> ""]
    /\ src = [h \in Hosts |-> <<>>]
    /\ resourceName = [h \in Hosts |-> ""]
    /\ tarballErr = [h \in Hosts |-> Nil]
    /\ lightenErr = [h \in Hosts |-> Nil]
    /\ blocks = [h \in Hosts |-> <<>>]
    /\ index = [h \in Hosts |-> 0]
    /\ blockErr = [h \in Hosts |-> Nil]
    /\ metadata = [h \in Hosts |-> ZeroMetadata]
    /\ falls = [h \in Hosts |-> FALSE]
    /\ ret = [h \in Hosts |-> Nil]
    /\ ops = [h \in Hosts |-> <<>>]

Init == InitRuns({"node1"})

\* AfterLighten with the archive branch taken whatever the setting
AfterLighten_alwaysArchive(h) == "tarball"

\* Collect, line 93: the step that follows lightening
AfterLighten(h) == IF collector[h].CopyCompressed THEN "tarball" ELSE "download"

\* Collect, lines 66-70: agent.Connect()
Connect(h) ==
    /\ pc[h] = "connect"
    /\ \E failed \in BOOLEAN :
        /\ ops' = [ops EXCEPT ![h] = Append(@, Call("connect", <<>>, <<>>,
                                                    Response(<<>>, "", failed)))]
        /\ err' = [err EXCEPT ![h] = IF failed THEN TransportError ELSE Nil]
        /\ IF failed
           THEN /\ ret' = [ret EXCEPT ![h] = TransportError]
                /\ pc' = [pc EXCEPT ![h] = "done"]
           ELSE /\ pc' = [pc EXCEPT ![h] = "create"]
                /\ UNCHANGED ret
    /\ UNCHANGED <<collector, response, sout, snapshot, src, resourceName, tarballErr, lightenErr>>
    /\ UNCHANGED lightenLocals

\* Collect, lines 72-82: createSnapshot, then src is built
CreateSnapshot(h) ==
    /\ pc[h] = "create"
    /\ \E resp \in CreateResponses :
        LET r == createSnapshot(resp) IN
        /\ ops' = [ops EXCEPT ![h] = Append(@, Call("create", <<>>, <<>>, resp))]
        /\ err' = [err EXCEPT ![h] = r.err]
        /\ response' = [response EXCEPT ![h] = r.response]
        /\ sout' = [sout EXCEPT ![h] = resp.sout]
        /\ IF r.err # Nil
           THEN /\ ret' = [ret EXCEPT ![h] = r.err]
                /\ pc' = [pc EXCEPT ![h] = "done"]
                /\ UNCHANGED <<snapshot, src, resourceName>>
           ELSE /\ snapshot' = [snapshot EXCEPT ![h] = r.name]
                /\ resourceName' = [resourceName EXCEPT ![h] = "snapshot"]
                /\ src' = [src EXCEPT ![h] = SnapshotPath(collector[h].DataPath, r.name)]
                /\ pc' = [pc EXCEPT ![h] = "list"]
                /\ UNCHANGED ret
    /\ UNCHANGED <<collector, tarballErr, lightenErr>>
    /\ UNCHANGED lightenLocals

\* lightenSnapshot, lines 172-175: getBlockList; on failure lightenSnapshot
\* returns the error and Collect (lines 86-91) logs it and goes on
ListBlocks(h) ==
    /\ pc[h] = "list"
    /\ \E resp \in ListResponses(src[h]) :
        LET r == getBlockList(resp) IN
        /\ ops' = [ops EXCEPT ![h] = Append(@, Call("list", src[h], <<>>, resp))]
        /\ IF r.err # Nil
           THEN /\ lightenErr' = [lightenErr EXCEPT ![h] = r.err]
                /\ pc' = [pc EXCEPT ![h] = AfterLighten(h)]
                /\ UNCHANGED blocks
           ELSE /\ blocks' = [blocks EXCEPT ![h] = r.blocks]
                /\ pc' = [pc EXCEPT ![h] = "blocks"]
                /\ UNCHANGED lightenErr
    /\ UNCHANGED <<collector, err, response, sout, snapshot, src, resourceName, tarballErr, ret>>
    /\ UNCHANGED <<index, blockErr, metadata, falls>>

\* lightenSnapshot, lines 177-209: one iteration of the loop over blocks
LightenBlock(h) ==
    /\ pc[h] = "blocks"
    /\ index[h] < Len(blocks[h])
    /\ LET block == blocks[h][index[h] + 1] IN
       \E resp \in MetadataResponses :
        LET r == getBlockMetadata(resp)
            read == Call("meta", block, <<>>, resp)
            inRange == fallsIntoTheSelectedTimeRange(r.metadata, collector[h].TimestampFrom,
                                                     collector[h].TimestampTo)
        IN
        /\ blockErr' = [blockErr EXCEPT ![h] = r.err]
        /\ metadata' = [metadata EXCEPT ![h] = r.metadata]
        /\ index' = [index EXCEPT ![h] = @ + 1]
        /\ IF skipsBlock(r.err, r.metadata)
           THEN /\ falls' = [falls EXCEPT ![h] = FALSE]
                /\ ops' = [ops EXCEPT ![h] = Append(@, read)]
           ELSE /\ falls' = [falls EXCEPT ![h] = inRange]
                /\ IF inRange
                   THEN ops' = [ops EXCEPT ![h] = Append(@, read)]
                   ELSE \E rm \in PlainResponses :
                            ops' = [ops EXCEPT ![h] =
                                        Append(Append(@, read), Call("rm", block, <<>>, rm))]
    /\ UNCHANGED <<collector, pc, blocks>>
    /\ UNCHANGED collectLocals

\* LightenReturn with the loop left, and the error returned, after a block
\* whose metadata could not be read
LightenReturn_afterFailure(h) ==
    /\ pc[h] = "blocks"
    /\ index[h] >= Len(blocks[h]) \/ blockErr[h] # Nil
    /\ lightenErr' = [lightenErr EXCEPT ![h] = blockErr[h]]
    /\ blocks' = [blocks EXCEPT ![h] = <<>>]
    /\ index' = [index EXCEPT ![h] = 0]
    /\ blockErr' = [blockErr EXCEPT ![h] = Nil]
    /\ metadata' = [metadata EXCEPT ![h] = ZeroMetadata]
    /\ falls' = [falls EXCEPT ![h] = FALSE]
    /\ pc' = [pc EXCEPT ![h] = AfterLighten(h)]
    /\ UNCHANGED <<collector, err, response, sout, snapshot, src, resourceName, tarballErr, ret, ops>>

\* lightenSnapshot, line 211: the loop is over, lightenSnapshot returns nil
\* and Collect (lines 86-91) goes on
LightenReturn(h) ==
    /\ pc[h] = "blocks"
    /\ index[h] >= Len(blocks[h])
    /\ lightenErr' = [lightenErr EXCEPT ![h] = Nil]
    /\ blocks' = [blocks EXCEPT ![h] = <<>>]
    /\ index' = [index EXCEPT ![h] = 0]
    /\ blockErr' = [blockErr EXCEPT ![h] = Nil]
    /\ metadata' = [metadata EXCEPT ![h] = ZeroMetadata]
    /\ falls' = [falls EXCEPT ![h] = FALSE]
    /\ pc' = [pc EXCEPT ![h] = AfterLighten(h)]
    /\ UNCHANGED <<collector, err, response, sout, snapshot, src, resourceName, tarballErr, ret, ops>>

\* Collect, lines 93-100: tarballSnapshot
Tarball(h) ==
    /\ pc[h] = "tarball"
    /\ \E resp \in PlainResponses :
        /\ ops' = [ops EXCEPT ![h] = Append(@, Call("tar", src[h], temporalSnapshotTarballPath,
                                                    resp))]
        /\ tarballErr' = [tarballErr EXCEPT ![h] = tarballSnapshot(resp)]
    /\ pc' = [pc EXCEPT ![h] = "cleanupSnapshot"]
    /\ UNCHANGED <<collector, err, response, sout, snapshot, src, resourceName, lightenErr, ret>>
    /\ UNCHANGED lightenLocals

\* CleanupSnapshot with the archive's error returned before the removal
CleanupSnapshot_onlyAfterSuccess(h) ==
    /\ pc[h] = "cleanupSnapshot"
    /\ IF tarballErr[h] # Nil
       THEN /\ ret' = [ret EXCEPT ![h] = tarballErr[h]]
            /\ pc' = [pc EXCEPT ![h] = "done"]
            /\ UNCHANGED <<src, resourceName, ops, err>>
       ELSE /\ \E resp \in PlainResponses :
                /\ ops' = [ops EXCEPT ![h] = Append(@, Call("rm", src[h], <<>>, resp))]
                /\ err' = [err EXCEPT ![h] = removeResource(src[h], resp)]
            /\ src' = [src EXCEPT ![h] = temporalSnapshotTarballPath]
            /\ resourceName' = [resourceName EXCEPT ![h] = "snapshot tarball"]
            /\ pc' = [pc EXCEPT ![h] = "download"]
            /\ UNCHANGED ret
    /\ UNCHANGED <<collector, response, sout, snapshot, tarballErr, lightenErr>>
    /\ UNCHANGED lightenLocals

\* CleanupSnapshot with src kept in one place for every run
CleanupSnapshot_sharedSrc(h) ==
    /\ pc[h] = "cleanupSnapshot"
    /\ \E resp \in PlainResponses :
        /\ ops' = [ops EXCEPT ![h] = Append(@, Call("rm", src[h], <<>>, resp))]
        /\ err' = [err EXCEPT ![h] = removeResource(src[h], resp)]
    /\ IF tarballErr[h] # Nil
       THEN /\ ret' = [ret EXCEPT ![h] = tarballErr[h]]
            /\ pc' = [pc EXCEPT ![h] = "done"]
            /\ UNCHANGED <<src, resourceName>>
       ELSE /\ src' = [g \in Hosts |-> temporalSnapshotTarballPath]
            /\ resourceName' = [resourceName EXCEPT ![h] = "snapshot tarball"]
            /\ pc' = [pc EXCEPT ![h] = "download"]
            /\ UNCHANGED ret
    /\ UNCHANGED <<collector, response, sout, snapshot, tarballErr, lightenErr>>
    /\ UNCHANGED lightenLocals

\* Collect, lines 102-116: the snapshot directory is removed, then the
\* archive's error is returned or src becomes the archive
CleanupSnapshot(h) ==
    /\ pc[h] = "cleanupSnapshot"
    /\ \E resp \in PlainResponses :
        /\ ops' = [ops EXCEPT ![h] = Append(@, Call("rm", src[h], <<>>, resp))]
        /\ err' = [err EXCEPT ![h] = removeResource(src[h], resp)]
    /\ IF tarballErr[h] # Nil
       THEN /\ ret' = [ret EXCEPT ![h] = tarballErr[h]]
            /\ pc' = [pc EXCEPT ![h] = "done"]
            /\ UNCHANGED <<src, resourceName>>
       ELSE /\ src' = [src EXCEPT ![h] = temporalSnapshotTarballPath]
            /\ resourceName' = [resourceName EXCEPT ![h] = "snapshot tarball"]
            /\ pc' = [pc EXCEPT ![h] = "download"]
            /\ UNCHANGED ret
    /\ UNCHANGED <<collector, response, sout, snapshot, tarballErr, lightenErr>>
    /\ UNCHANGED lightenLocals

\* Download tried a second time after a first failure
Download_retriedOnce(h) ==
    /\ pc[h] = "download"
    /\ \E failed \in BOOLEAN :
        /\ ops' = [ops EXCEPT ![h] =
                    Append(@, Call("receive", src[h], collector[h].Path \o <<"snapshot">>,
                                   Response(<<>>, "", failed)))]
        /\ err' = [err EXCEPT ![h] = downloadSnapshot(failed)]
        /\ pc' = [pc EXCEPT ![h] =
                    IF failed /\ ~(\E i \in DOMAIN ops[h] : ops[h][i].op = "receive")
                    THEN "download" ELSE "cleanup"]
    /\ UNCHANGED <<collector, response, sout, snapshot, src, resourceName, tarballErr, lightenErr, ret>>
    /\ UNCHANGED lightenLocals

\* Download with the resource removed before it is received
Download_afterRemoval(h) ==
    /\ pc[h] = "download"
    /\ \E failed \in BOOLEAN, resp \in PlainResponses :
        /\ ops' = [ops EXCEPT ![h] =
                    Append(Append(@, Call("rm", src[h], <<>>, resp)),
                           Call("receive", src[h], collector[h].Path \o <<"snapshot">>,
                                Response(<<>>, "", failed)))]
        /\ err' = [err EXCEPT ![h] = downloadSnapshot(failed)]
    /\ pc' = [pc EXCEPT ![h] = "cleanup"]
    /\ UNCHANGED <<collector, response, sout, snapshot, src, resourceName, tarballErr, lightenErr, ret>>
    /\ UNCHANGED lightenLocals

\* Download with a failed download returned at once
Download_fatal(h) ==
    /\ pc[h] = "download"
    /\ \E failed \in BOOLEAN :
        /\ ops' = [ops EXCEPT ![h] =
                    Append(@, Call("receive", src[h], collector[h].Path \o <<"snapshot">>,
                                   Response(<<>>, "", failed)))]
        /\ err' = [err EXCEPT ![h] = downloadSnapshot(failed)]
        /\ ret' = [ret EXCEPT ![h] = downloadSnapshot(failed)]
        /\ pc' = [pc EXCEPT ![h] = IF failed THEN "done" ELSE "cleanup"]
    /\ UNCHANGED <<collector, response, sout, snapshot, src, resourceName, tarballErr, lightenErr>>
    /\ UNCHANGED lightenLocals

\* Collect, lines 118-126: downloadSnapshot
Download(h) ==
    /\ pc[h] = "download"
    /\ \E failed \in BOOLEAN :
        /\ ops' = [ops EXCEPT ![h] =
                    Append(@, Call("receive", src[h], collector[h].Path \o <<"snapshot">>,
                                   Response(<<>>, "", failed)))]
        /\ err' = [err EXCEPT ![h] = downloadSnapshot(failed)]
    /\ pc' = [pc EXCEPT ![h] = "cleanup"]
    /\ UNCHANGED <<collector, response, sout, snapshot, src, resourceName, tarballErr, lightenErr, ret>>
    /\ UNCHANGED lightenLocals

\* Cleanup removing the snapshot directory whatever was downloaded
Cleanup_removingSnapshotDir(h) ==
    /\ pc[h] = "cleanup"
    /\ \E resp \in PlainResponses :
        LET dir == collector[h].DataPath \o <<"snapshots", snapshot[h]>>
            e == removeResource(dir, resp) IN
        /\ ops' = [ops EXCEPT ![h] = Append(@, Call("rm", dir, <<>>, resp))]
        /\ err' = [err EXCEPT ![h] = e]
        /\ ret' = [ret EXCEPT ![h] = e]
    /\ pc' = [pc EXCEPT ![h] = "done"]
    /\ UNCHANGED <<collector, response, sout, snapshot, src, resourceName, tarballErr, lightenErr>>
    /\ UNCHANGED lightenLocals

\* Cleanup with the download's error returned when the removal succeeded
Cleanup_returningDownloadError(h) ==
    /\ pc[h] = "cleanup"
    /\ \E resp \in PlainResponses :
        LET e == removeResource(src[h], resp) IN
        /\ ops' = [ops EXCEPT ![h] = Append(@, Call("rm", src[h], <<>>, resp))]
        /\ err' = [err EXCEPT ![h] = e]
        /\ ret' = [ret EXCEPT ![h] = IF e # Nil THEN e ELSE err[h]]
    /\ pc' = [pc EXCEPT ![h] = "done"]
    /\ UNCHANGED <<collector, response, sout, snapshot, src, resourceName, tarballErr, lightenErr>>
    /\ UNCHANGED lightenLocals

\* Collect, lines 128-137: the transfer resource is removed and Collect returns
Cleanup(h) ==
    /\ pc[h] = "cleanup"
    /\ \E resp \in PlainResponses :
        LET e == removeResource(src[h], resp) IN
        /\ ops' = [ops EXCEPT ![h] = Append(@, Call("rm", src[h], <<>>, resp))]
        /\ err' = [err EXCEPT ![h] = e]
        /\ ret' = [ret EXCEPT ![h] = e]
    /\ pc' = [pc EXCEPT ![h] = "done"]
    /\ UNCHANGED <<collector, response, sout, snapshot, src, resourceName, tarballErr, lightenErr>>
    /\ UNCHANGED lightenLocals

Next ==
    \E h \in Hosts :
        \/ Connect(h)
        \/ CreateSnapshot(h)
        \/ ListBlocks(h)
        \/ LightenBlock(h)
        \/ LightenReturn(h)
        \/ Tarball(h)
        \/ CleanupSnapshot(h)
        \/ Download(h)
        \/ Cleanup(h)

Spec == Init /\ [][Next]_vars

\* every agent call returns and Collect runs on: a step that can be taken is
\* taken in the end
SpecFair == Init /\ [][Next]_vars /\ WF_vars(Next)

(***************************************************************************)
(* Reading the agent's record and the run's outcome.                       *)
(***************************************************************************)
\* the command failed as the remote side reports it
CallFailed(c) == c.err \/ c.serr # ""

HasCall(h, op) == \E i \in DOMAIN ops[h] : ops[h][i].op = op

LastCall(h) == ops[h][Len(ops[h])]

\* a removal command for `path` is in the record
RemovalIssued(h, path) ==
    \E i \in DOMAIN ops[h] : ops[h][i].op = "rm" /\ ops[h][i].path = path

\* <data-root>/snapshots/<name>
SnapshotDirOf(h) == collector[h].DataPath \o <<"snapshots", snapshot[h]>>

ArchivePath == <<"tmp", "InstaclustrCollection.tar">>

ConnectFailed(h) == Len(ops[h]) >= 1 /\ ops[h][1].op = "connect" /\ ops[h][1].err

\* the snapshot request was sent and did not yield a success response
CreateFailed(h) ==
    /\ Len(ops[h]) >= 2
    /\ ops[h][2].op = "create"
    /\ \/ CallFailed(ops[h][2])
       \/ ~response[h].json
       \/ response[h].status # "success"

CreateSucceeded(h) == Len(ops[h]) >= 2 /\ ops[h][2].op = "create" /\ ~CreateFailed(h)

ArchiveFailed(h) == \E i \in DOMAIN ops[h] : ops[h][i].op = "tar" /\ CallFailed(ops[h][i])

ArchiveSucceeded(h) == \E i \in DOMAIN ops[h] : ops[h][i].op = "tar" /\ ~CallFailed(ops[h][i])

ListFailed(h) == \E i \in DOMAIN ops[h] : ops[h][i].op = "list" /\ CallFailed(ops[h][i])

\* the error the archive step reports for a failed archive command
ArchiveErrorOf(c) ==
    IF c.err THEN TransportError
    ELSE NewError("Failed to create snapshot tarball: ", <<>>, <<c.serr>>)

(***************************************************************************)
(* C1                                                                      *)
(***************************************************************************)
\* C1: with archiving enabled, once the archive command has failed (transport
\* error or non-empty stderr) no download is ever issued, the run is at the
\* removal of the snapshot directory or over, and when it is over Collect has
\* returned exactly the archive error, whatever lightening and the removal of
\* the snapshot directory did.
ArchiveFailureIsReturned ==
    \A h \in Hosts : \A i \in DOMAIN ops[h] :
        (collector[h].CopyCompressed /\ ops[h][i].op = "tar" /\ CallFailed(ops[h][i])) =>
            /\ ~HasCall(h, "receive")
            /\ pc[h] \in {"cleanupSnapshot", "done"}
            /\ pc[h] = "done" => ret[h] = ArchiveErrorOf(ops[h][i]) /\ ret[h] # Nil

\* the archive command wrote to stderr, the removal of the snapshot directory
\* failed as well, and Collect has returned
ArchiveFailureWitness ==
    \E h \in Hosts : \E i \in DOMAIN ops[h] :
        /\ pc[h] = "done"
        /\ collector[h].CopyCompressed
        /\ ops[h][i].op = "tar" /\ ~ops[h][i].err /\ ops[h][i].serr # ""
        /\ i + 1 \in DOMAIN ops[h] /\ ops[h][i + 1].op = "rm" /\ ops[h][i + 1].err
        /\ ret[h] # Nil

SnapshotRemovedAfterArchive ==
    \A h \in Hosts : \A i \in DOMAIN ops[h] :
        ops[h][i].op = "tar" =>
            /\ collector[h].CopyCompressed
            /\ ops[h][i].path = SnapshotDirOf(h)
            /\ pc[h] # "cleanupSnapshot" =>
                /\ i + 1 \in DOMAIN ops[h]
                /\ ops[h][i + 1].op = "rm"
                /\ ops[h][i + 1].path = SnapshotDirOf(h)
            /\ ~CallFailed(ops[h][i]) =>
                /\ pc[h] \in {"cleanupSnapshot", "download", "cleanup", "done"}
                /\ pc[h] \in {"cleanup", "done"} =>
                    /\ i + 2 \in DOMAIN ops[h]
                    /\ ops[h][i + 2].op = "receive"
                    /\ ops[h][i + 2].path = ArchivePath
                /\ pc[h] = "done" =>
                    /\ i + 3 \in DOMAIN ops[h]
                    /\ ops[h][i + 3].op = "rm"
                    /\ ops[h][i + 3].path = ArchivePath
                /\ \A j \in DOMAIN ops[h] :
                    ops[h][j].op = "receive" => ops[h][j].path = ArchivePath

\* the archive command succeeded and the run is over: the archive was
\* downloaded and removed
SnapshotRemovedAfterArchiveWitness ==
    \E h \in Hosts : \E i \in DOMAIN ops[h] :
        /\ pc[h] = "done"
        /\ ops[h][i].op = "tar" /\ ~CallFailed(ops[h][i])
        /\ RemovalIssued(h, SnapshotDirOf(h))
        /\ RemovalIssued(h, ArchivePath)
        /\ HasCall(h, "receive")

(***************************************************************************)
(* C4                                                                      *)
(***************************************************************************)
\* C4: with archiving disabled no archive command is issued; after the
\* snapshot was created src is <data-root>/snapshots/<name> at every step;
\* every download names that directory and no removal of it precedes the
\* download; the only removal of it is the last call of the run, right after
\* the download.
NoArchiveKeepsSnapshotDir ==
    \A h \in Hosts :
        (pc[h] # "idle" /\ ~collector[h].CopyCompressed) =>
            /\ ~HasCall(h, "tar")
            /\ pc[h] \notin {"tarball", "cleanupSnapshot"}
            /\ CreateSucceeded(h) => src[h] = SnapshotDirOf(h)
            /\ \A i \in DOMAIN ops[h] :
                /\ ops[h][i].op = "receive" =>
                    /\ ops[h][i].path = SnapshotDirOf(h)
                    /\ \A j \in 1..i : ~(ops[h][j].op = "rm" /\ ops[h][j].path = SnapshotDirOf(h))
                /\ (ops[h][i].op = "rm" /\ ops[h][i].path = SnapshotDirOf(h)) =>
                    /\ i = Len(ops[h])
                    /\ pc[h] = "done"
                    /\ ops[h][i - 1].op = "receive"
            /\ (pc[h] = "done" /\ CreateSucceeded(h)) =>
                /\ LastCall(h).op = "rm"
                /\ LastCall(h).path = SnapshotDirOf(h)

\* a finished run without archiving that lightened, downloaded and removed
\* the snapshot directory
NoArchiveWitness ==
    \E h \in Hosts :
        /\ pc[h] = "done"
        /\ ~collector[h].CopyCompressed
        /\ HasCall(h, "receive")
        /\ \E i \in DOMAIN ops[h] : ops[h][i].op = "rm" /\ ops[h][i].path # SnapshotDirOf(h)
        /\ LastCall(h).op = "rm" /\ LastCall(h).path = SnapshotDirOf(h)

(***************************************************************************)
(* C5                                                                      *)
(***************************************************************************)
\* C5: if connect failed, connect is the only call of the run and Collect has
\* returned the transport error; if the snapshot request did not yield a
\* success response, connect and the request are the only calls of the run
\* and Collect has returned the error of createSnapshot.
ConnectAndCreateAreFatal ==
    \A h \in Hosts :
        /\ ConnectFailed(h) =>
            /\ pc[h] = "done"
            /\ Len(ops[h]) = 1
            /\ ret[h] = TransportError
        /\ CreateFailed(h) =>
            /\ pc[h] = "done"
            /\ Len(ops[h]) = 2
            /\ ret[h] # Nil
            /\ ret[h] = err[h]
            /\ ret[h].msg \in {TransportError.msg,
                               "Failed to create prometheus snapshot: ",
                               "Failed to unmarshal snapshot command output",
                               "Failed to create prometheus snapshot (status)"}

\* the remote answered a well-formed response whose status is not "success"
CreateRejectedWitness ==
    \E h \in Hosts :
        /\ pc[h] = "done"
        /\ Len(ops[h]) = 2
        /\ ~CallFailed(ops[h][2])
        /\ response[h].json /\ response[h].status = "error"
        /\ ret[h] # Nil

(***************************************************************************)
(* C6                                                                      *)
(***************************************************************************)
\* C6: when Collect has returned, a removal of <data-root>/snapshots/<name>
\* was issued if the snapshot was created, and a removal of the archive path
\* was issued after the archive command if that command succeeded.
RemovalAlwaysAttempted ==
    \A h \in Hosts :
        pc[h] = "done" =>
            /\ CreateSucceeded(h) => RemovalIssued(h, SnapshotDirOf(h))
            /\ \A i \in DOMAIN ops[h] :
                (ops[h][i].op = "tar" /\ ~CallFailed(ops[h][i])) =>
                    \E j \in DOMAIN ops[h] :
                        j > i /\ ops[h][j].op = "rm" /\ ops[h][j].path = ArchivePath

\* listing failed, the archive succeeded, the removal of the snapshot
\* directory and the download failed: the archive was still removed
RemovalAttemptedWitness ==
    \E h \in Hosts :
        /\ pc[h] = "done"
        /\ ListFailed(h)
        /\ ArchiveSucceeded(h)
        /\ \E i \in DOMAIN ops[h] : ops[h][i].op = "receive" /\ ops[h][i].err
        /\ \E i \in DOMAIN ops[h] :
            ops[h][i].op = "rm" /\ ops[h][i].path = SnapshotDirOf(h) /\ ops[h][i].err
        /\ RemovalIssued(h, ArchivePath)

(***************************************************************************)
(* The requested window and a block's bounds as instants: an instant is    *)
(* <<epoch milliseconds, nanoseconds within the millisecond>>.             *)
(***************************************************************************)
InstantOf(t) == <<t.sec * 1000 + (t.nsec \div 1000000), t.nsec % 1000000>>

WindowFrom(h) == InstantOf(collector[h].TimestampFrom)
WindowTo(h) == InstantOf(collector[h].TimestampTo)

\* the whole millisecond ms is strictly after / strictly before the instant w
MsAfter(ms, w) == ms > w[1]
MsBefore(ms, w) == ms < w[1] \/ (ms = w[1] /\ w[2] > 0)

InstantBefore(v, w) == v[1] < w[1] \/ (v[1] = w[1] /\ v[2] < w[2])

\* the documented test: (blockMin > from OR blockMax > from) AND
\* (blockMin < to OR blockMax < to)
DocumentedKeep(m, from, to) ==
    /\ MsAfter(m.MinTime, from) \/ MsAfter(m.MaxTime, from)
    /\ MsBefore(m.MinTime, to) \/ MsBefore(m.MaxTime, to)

\* [minTime, maxTime] and [from, to) share an instant
SharesInstant(m, from, to) ==
    /\ m.MinTime <= m.MaxTime
    /\ InstantBefore(from, to)
    /\ ~MsBefore(m.MaxTime, from)
    /\ MsBefore(m.MinTime, to)

\* the loop of lightenSnapshot has just gone through a block
JustEvaluated(h) == pc[h] = "blocks" /\ index[h] > 0

CurrentBlock(h) == blocks[h][index[h]]

ScenarioWindow(h) == WindowFrom(h) = <<1000, 0>> /\ WindowTo(h) = <<15000, 0>>

(***************************************************************************)
(* C7                                                                      *)
(***************************************************************************)
\* C7: right after the loop went through a block whose metadata was read and
\* parsed with version 1, a removal of that block has been issued exactly when
\* the documented test on its bounds in milliseconds is false (strict
\* comparisons), and it is then the last call; with the window 1000..15000
\* the block 0..500 is removed and the block 10000..20000 is kept.
DocumentedTestDecidesRemoval ==
    \A h \in Hosts :
        (JustEvaluated(h) /\ blockErr[h] = Nil /\ metadata[h].Version = 1) =>
            LET keep == DocumentedKeep(metadata[h], WindowFrom(h), WindowTo(h)) IN
            /\ RemovalIssued(h, CurrentBlock(h)) <=> ~keep
            /\ falls[h] <=> keep
            /\ LastCall(h).path = CurrentBlock(h)
            /\ LastCall(h).op = IF keep THEN "meta" ELSE "rm"
            /\ Cardinality({i \in DOMAIN ops[h] : ops[h][i].path = CurrentBlock(h)})
                 = IF keep THEN 1 ELSE 2
            /\ (ScenarioWindow(h) /\ metadata[h].MinTime = 0 /\ metadata[h].MaxTime = 500)
                 => RemovalIssued(h, CurrentBlock(h))
            /\ (ScenarioWindow(h) /\ metadata[h].MinTime = 10000 /\ metadata[h].MaxTime = 20000)
                 => ~RemovalIssued(h, CurrentBlock(h))

\* the scenario: window 1000..15000, the first block was removed, the second
\* block is 10000..20000 and was kept
DocumentedTestWitness ==
    \E h \in Hosts :
        /\ JustEvaluated(h) /\ blockErr[h] = Nil /\ metadata[h].Version = 1
        /\ ScenarioWindow(h)
        /\ index[h] = 2
        /\ RemovalIssued(h, blocks[h][1])
        /\ metadata[h].MinTime = 10000 /\ metadata[h].MaxTime = 20000
        /\ ~RemovalIssued(h, blocks[h][2])

(***************************************************************************)
(* C8                                                                      *)
(***************************************************************************)
\* C8, the half a removal can break: right after the loop went through a
\* version-1 block with readable metadata and minTime <= maxTime, the block
\* has been removed only when [minTime, maxTime] shares no instant with
\* [from, to), so that no block holding a sample inside the window is removed.
\* (The other half, kept only when it overlaps, fails as well: with from >= to
\* the window is empty and the test still keeps blocks around it.)
NoOverlappingBlockRemoved ==
    \A h \in Hosts :
        (/\ JustEvaluated(h) /\ blockErr[h] = Nil /\ metadata[h].Version = 1
         /\ metadata[h].MinTime <= metadata[h].MaxTime) =>
            (RemovalIssued(h, CurrentBlock(h))
                => ~SharesInstant(metadata[h], WindowFrom(h), WindowTo(h)))

(***************************************************************************)
(* C9                                                                      *)
(***************************************************************************)
\* C9: right after the loop went through a block whose metadata was read and
\* parsed with a version other than 1, no removal of that block has been
\* issued, whatever its bounds and the window: the read of its metadata is
\* the last call, and the loop goes on with the next block if there is one.
OtherVersionsAreNotRemoved ==
    \A h \in Hosts :
        (JustEvaluated(h) /\ blockErr[h] = Nil /\ metadata[h].Version # 1) =>
            /\ ~RemovalIssued(h, CurrentBlock(h))
            /\ LastCall(h).op = "meta"
            /\ LastCall(h).path = CurrentBlock(h)
            /\ ~falls[h]
            /\ index[h] < Len(blocks[h]) => ENABLED LightenBlock(h)

\* a block of version 2 lying wholly outside the window was gone through,
\* and another block follows
OtherVersionWitness ==
    \E h \in Hosts :
        /\ JustEvaluated(h) /\ blockErr[h] = Nil /\ metadata[h].Version = 2
        /\ ~DocumentedKeep(metadata[h], WindowFrom(h), WindowTo(h))
        /\ index[h] < Len(blocks[h])

(***************************************************************************)
(* C10                                                                     *)
(***************************************************************************)
\* C10: once the listing command has failed (transport error or non-empty
\* stderr), lightenSnapshot has returned one error, no block metadata is ever
\* read and no removal other than those of the snapshot directory and of the
\* archive is ever issued; the run goes on with the archive step or the
\* download, and a finished run has gone through them.
ListingFailureIsSoft ==
    \A h \in Hosts : \A i \in DOMAIN ops[h] :
        (ops[h][i].op = "list" /\ CallFailed(ops[h][i])) =>
            /\ lightenErr[h] # Nil
            /\ lightenErr[h].msg \in {TransportError.msg,
                                      "Failed to get block list of prometheus snapshot: "}
            /\ ~HasCall(h, "meta")
            /\ \A j \in DOMAIN ops[h] :
                ops[h][j].op = "rm" => ops[h][j].path \in {SnapshotDirOf(h), ArchivePath}
            /\ i = Len(ops[h]) =>
                pc[h] = IF collector[h].CopyCompressed THEN "tarball" ELSE "download"
            /\ i < Len(ops[h]) => ops[h][i + 1].op \in {"tar", "receive"}
            /\ pc[h] = "done" => i < Len(ops[h])

\* the listing wrote to stderr and Collect returned success
ListingFailureWitness ==
    \E h \in Hosts :
        /\ pc[h] = "done"
        /\ \E i \in DOMAIN ops[h] :
            ops[h][i].op = "list" /\ ~ops[h][i].err /\ ops[h][i].serr # ""
        /\ ret[h] = Nil

(***************************************************************************)
(* C11                                                                     *)
(***************************************************************************)
\* the calls of the record that name `path` and are of kind `op`
CallsOn(h, op, path) ==
    {i \in DOMAIN ops[h] : ops[h][i].op = op /\ ops[h][i].path = path}

ListSucceeded(h) == \E i \in DOMAIN ops[h] : ops[h][i].op = "list" /\ ~CallFailed(ops[h][i])

\* C11: while the loop of lightenSnapshot runs, every block it went through
\* has exactly one metadata read and the blocks ahead have none; as long as a
\* block is ahead the loop goes on and cannot return, whatever happened to the
\* blocks before (failed read, invalid JSON, failed removal); a block whose
\* metadata read failed or did not parse has no removal; and lightenSnapshot
\* returns an error only when the listing failed: after a listing that
\* succeeded it returns nil.
BlockFailuresDoNotAbort ==
    \A h \in Hosts :
        /\ pc[h] = "blocks" =>
            /\ \A k \in 1..Len(blocks[h]) :
                Cardinality(CallsOn(h, "meta", blocks[h][k])) = IF k <= index[h] THEN 1 ELSE 0
            /\ index[h] < Len(blocks[h]) =>
                /\ ENABLED LightenBlock(h)
                /\ ~ENABLED LightenReturn(h)
            /\ index[h] = Len(blocks[h]) => ENABLED LightenReturn(h)
            /\ (JustEvaluated(h) /\ blockErr[h] # Nil) =>
                /\ ~RemovalIssued(h, CurrentBlock(h))
                /\ LastCall(h).op = "meta"
            /\ lightenErr[h] = Nil
        /\ lightenErr[h] # Nil => ListFailed(h)
        /\ ListSucceeded(h) => lightenErr[h] = Nil

\* the removal of the first block failed, the metadata of the second block
\* is not JSON, and the loop has gone through both
BlockFailuresWitness ==
    \E h \in Hosts :
        /\ pc[h] = "blocks"
        /\ index[h] = 2
        /\ \E i \in CallsOn(h, "rm", blocks[h][1]) : ops[h][i].err
        /\ blockErr[h].msg = "Failed to unmarshal block metadata"
        /\ ENABLED LightenReturn(h)

(***************************************************************************)
(* C12                                                                     *)
(***************************************************************************)
\* the texts of an error's message
TextsOf(e) == {ErrorText(e)[i] : i \in DOMAIN ErrorText(e)}

\* C12: once the snapshot request was answered, createSnapshot has returned a
\* name, the one of the response, exactly when there was no transport error,
\* stderr was empty, stdout was JSON and its status was "success"; in every
\* other case it has returned an error and no name, and Collect has returned
\* that error with the request as its last call.  A response with status
\* "error" and error "out of space" gives an error whose text holds
\* "out of space".
SnapshotNameIffSuccess ==
    \A h \in Hosts :
        (Len(ops[h]) >= 2 /\ ops[h][2].op = "create") =>
            LET c == ops[h][2]
                ok == /\ ~c.err
                      /\ c.serr = ""
                      /\ sout[h].json
                      /\ sout[h].status = "success"
            IN /\ ok =>
                    /\ snapshot[h] = sout[h].name
                    /\ resourceName[h] # ""
                    /\ Len(ops[h]) = 2 => (pc[h] = "list" /\ err[h] = Nil /\ ret[h] = Nil)
               /\ ~ok =>
                    /\ snapshot[h] = ""
                    /\ resourceName[h] = ""
                    /\ err[h] # Nil
                    /\ pc[h] = "done"
                    /\ ret[h] = err[h]
                    /\ Len(ops[h]) = 2
               /\ (/\ ~c.err /\ c.serr = "" /\ sout[h].json
                   /\ sout[h].status = "error" /\ sout[h].error = "out of space") =>
                    "out of space" \in TextsOf(ret[h])
               /\ (~c.err /\ c.serr # "") => c.serr \in TextsOf(ret[h])

\* stderr was not empty although stdout carried a well-formed success
\* response: createSnapshot failed
StderrBeatsSuccessWitness ==
    \E h \in Hosts :
        /\ Len(ops[h]) = 2 /\ ops[h][2].op = "create"
        /\ ~ops[h][2].err /\ ops[h][2].serr # ""
        /\ sout[h].json /\ sout[h].status = "success" /\ sout[h].name # ""
        /\ snapshot[h] = ""
        /\ pc[h] = "done" /\ ret[h] # Nil

(***************************************************************************)
(* C13                                                                     *)
(***************************************************************************)
\* C13: when Collect has returned after the download, and the final removal
\* command returned a transport error or wrote to stderr, Collect has
\* returned the removal error, which names the removed path.
RemovalStderrIsFailure ==
    \A h \in Hosts :
        (/\ pc[h] = "done"
         /\ HasCall(h, "receive")
         /\ LastCall(h).op = "rm"
         /\ CallFailed(LastCall(h))) =>
            /\ ret[h].msg = "Failed to remove resource"
            /\ ret[h].path = LastCall(h).path

(***************************************************************************)
(* Two runs at once.  The routine that calls Collect may run it for        *)
(* several hosts at a time, each run with its own agent and destination;   *)
(* any step of one run can fall between two steps of the other.  The runs  *)
(* are kept small: one window, listings of at most BothBlocks blocks,      *)
(* supported-version metadata over BothRanges, and commands that fail      *)
(* only by a transport error.                                              *)
(***************************************************************************)
BothBlocks == 1

BothRanges == {<<0, 500>>, <<1000, 10000>>}

InBoth ==
    \A h \in Hosts :
        /\ Len(blocks[h]) <= BothBlocks
        /\ \A i \in DOMAIN ops[h] : ops[h][i].serr = ""
        /\ \/ metadata[h] = ZeroMetadata
           \/ /\ metadata[h].Version = SupportedVersion
              /\ <<metadata[h].MinTime, metadata[h].MaxTime>> \in BothRanges

InitBoth == InitRuns(Hosts) /\ \A h \in Hosts : ScenarioWindow(h)

Within(A) == A /\ InBoth'

NextBoth ==
    \E h \in Hosts :
        \/ Within(Connect(h))
        \/ Within(CreateSnapshot(h))
        \/ Within(ListBlocks(h))
        \/ Within(LightenBlock(h))
        \/ Within(LightenReturn(h))
        \/ Within(Tarball(h))
        \/ Within(CleanupSnapshot(h))
        \/ Within(Download(h))
        \/ Within(Cleanup(h))

SpecBoth == InitBoth /\ [][NextBoth]_vars

(***************************************************************************)
(* C14                                                                     *)
(***************************************************************************)
\* everything one run holds: its locals, its result and its agent's record
RunState(h) ==
    <<pc[h], err[h], response[h], sout[h], snapshot[h], src[h], resourceName[h],
      tarballErr[h], lightenErr[h], blocks[h], index[h], blockErr[h],
      metadata[h], falls[h], ret[h], ops[h]>>

\* one step of Collect for h, as it is taken when that run is the only one
StepOf(h) ==
    \/ Connect(h)
    \/ CreateSnapshot(h)
    \/ ListBlocks(h)
    \/ LightenBlock(h)
    \/ LightenReturn(h)
    \/ Tarball(h)
    \/ CleanupSnapshot(h)
    \/ Download(h)
    \/ Cleanup(h)

\* C14: with two runs under way against distinct agents and interleaved in
\* every way, no step writes the collectors, and whenever the state of a run
\* (its locals, its result, the operations its agent received) changes, the
\* change is a step of that run as it is taken alone, which leaves the other
\* run's state as it was; so each run goes through the states, calls and
\* result it has when it runs alone.
RunsAreIndependent ==
    [][/\ collector' = collector
       /\ \A h \in Hosts : RunState(h)' # RunState(h) => StepOf(h)]_vars

\* node1 has returned success while node2, started with another setting, is
\* between its failed archive command and the removal of its snapshot
RunsInterleavedWitness ==
    /\ pc["node1"] = "done"
    /\ ret["node1"] = Nil
    /\ ~collector["node1"].CopyCompressed
    /\ RemovalIssued("node1", SnapshotDirOf("node1") \o <<BlockNames[1]>>)
    /\ pc["node2"] = "cleanupSnapshot"
    /\ tarballErr["node2"] # Nil
    /\ collector["node2"].CopyCompressed

(***************************************************************************)
(* C15                                                                     *)
(***************************************************************************)
\* the removal issued after the download
FinalRemoval(h) == LastCall(h)

FinalRemovalIssued(h) == HasCall(h, "receive") /\ LastCall(h).op = "rm"

TarCall(h) == ops[h][CHOOSE i \in DOMAIN ops[h] : ops[h][i].op = "tar"]

\* C15: when Collect has returned, its result is the error of the earliest
\* failed step among connect, snapshot creation, archiving (when enabled)
\* and the final removal, and success when none of the four failed; the
\* outcomes of lightening, of the removal of the snapshot directory after
\* archiving and of the download do not enter.  A command fails by a
\* transport error or by writing to stderr.
ResultIsEarliestFailure ==
    \A h \in Hosts :
        pc[h] = "done" =>
            IF ConnectFailed(h) THEN ret[h] = TransportError
            ELSE IF CreateFailed(h)
            THEN /\ ret[h] # Nil
                 /\ ret[h].msg \in {TransportError.msg,
                                    "Failed to create prometheus snapshot: ",
                                    "Failed to unmarshal snapshot command output",
                                    "Failed to create prometheus snapshot (status)"}
            ELSE IF collector[h].CopyCompressed /\ ArchiveFailed(h)
            THEN ret[h] = ArchiveErrorOf(TarCall(h))
            ELSE IF FinalRemovalIssued(h) /\ CallFailed(FinalRemoval(h))
            THEN /\ ret[h].msg = "Failed to remove resource"
                 /\ ret[h].path = FinalRemoval(h).path
            ELSE /\ FinalRemovalIssued(h)
                 /\ ret[h] = Nil

(***************************************************************************)
(* C16                                                                     *)
(***************************************************************************)
\* the place of a recorded call in the documented order, from its operation,
\* its target and the run's setting
Stage(h, c) ==
    CASE c.op = "connect" -> 1
      [] c.op = "create" -> 2
      [] c.op = "list" -> 3
      [] c.op = "meta" -> 4
      [] c.op = "tar" -> 5
      [] c.op = "receive" -> 7
      [] c.op = "rm" ->
            IF c.path = ArchivePath THEN 8
            ELSE IF c.path = SnapshotDirOf(h)
                 THEN (IF collector[h].CopyCompressed THEN 6 ELSE 8)
                 ELSE 4

\* C16: the calls a run has issued are in the order connect, create, list,
\* then per block its metadata read and optionally its removal right after,
\* then (archiving) the archive command and the removal of the snapshot
\* directory, then the download, then the removal of the downloaded path;
\* each step outside the per-block ones is issued at most once.  So no block
\* is removed after the archive command, the snapshot directory is removed
\* only after the archive command returned, and the downloaded path only
\* after the download returned.
OperationsInOrder ==
    \A h \in Hosts :
        /\ \A i, j \in DOMAIN ops[h] :
            i < j =>
                \/ Stage(h, ops[h][i]) < Stage(h, ops[h][j])
                \/ Stage(h, ops[h][i]) = 4 /\ Stage(h, ops[h][j]) = 4
        /\ \A i \in DOMAIN ops[h] :
            /\ i <= 3 => Stage(h, ops[h][i]) = i
            /\ (ops[h][i].op = "rm" /\ Stage(h, ops[h][i]) = 4) =>
                /\ i > 1
                /\ ops[h][i - 1].op = "meta"
                /\ ops[h][i - 1].path = ops[h][i].path
            /\ ops[h][i].op = "tar" => ops[h][i].path = SnapshotDirOf(h)
            /\ ops[h][i].op = "receive" =>
                /\ ops[h][i].path = src[h]
                /\ \A j \in DOMAIN ops[h] :
                    (ops[h][j].op = "rm" /\ ops[h][j].path = src[h]) => j > i

\* an archiving run over two blocks, the first removed, has returned
OperationsInOrderWitness ==
    \E h \in Hosts :
        /\ pc[h] = "done"
        /\ Len(ops[h]) = 10
        /\ ops[h][5].op = "rm"
        /\ ops[h][7].op = "tar"
        /\ ops[h][8].op = "rm"
        /\ ops[h][9].op = "receive"
        /\ ops[h][10].op = "rm"

(***************************************************************************)
(* C17                                                                     *)
(***************************************************************************)
\* the strict interval-intersection test: blockMin < to AND blockMax > from
StrictKeep(m, from, to) == MsBefore(m.MinTime, to) /\ MsAfter(m.MaxTime, from)

\* C17: right after the loop went through a version-1 block with readable
\* metadata and minTime <= maxTime, whatever the window, the decision taken
\* (kept, or removal issued) is the one of the strict interval-intersection
\* test blockMin < to AND blockMax > from, and so is the documented OR/AND
\* formula; the tests can part only on a block with minTime > maxTime.
StrictTestAgreesOnOrderedBlocks ==
    \A h \in Hosts :
        (/\ JustEvaluated(h) /\ blockErr[h] = Nil /\ metadata[h].Version = 1
         /\ metadata[h].MinTime <= metadata[h].MaxTime) =>
            LET strict == StrictKeep(metadata[h], WindowFrom(h), WindowTo(h)) IN
            /\ falls[h] <=> strict
            /\ RemovalIssued(h, CurrentBlock(h)) <=> ~strict
            /\ DocumentedKeep(metadata[h], WindowFrom(h), WindowTo(h)) <=> strict

\* a block reaching over both ends of the window 1000..15000 was kept, after
\* a first block was removed
StrictTestWitness ==
    \E h \in Hosts :
        /\ JustEvaluated(h) /\ blockErr[h] = Nil /\ metadata[h].Version = 1
        /\ index[h] = 2
        /\ RemovalIssued(h, blocks[h][1])
        /\ ScenarioWindow(h)
        /\ metadata[h].MinTime = 500 /\ metadata[h].MaxTime = 20000
        /\ falls[h]
        /\ StrictKeep(metadata[h], WindowFrom(h), WindowTo(h))

(***************************************************************************)
(* C18                                                                     *)
(***************************************************************************)
Removals(h) == {i \in DOMAIN ops[h] : ops[h][i].op = "rm"}

\* the listed blocks the loop of lightenSnapshot has gone through
VisitedBlocks(h) == {blocks[h][k] : k \in 1..index[h]}

\* C18: while lightenSnapshot is under way its calls are the listing, then
\* metadata reads and removals of listed blocks it has gone through, never a
\* removal of the snapshot directory or of the archive, an archive command
\* or a download; those removals, the archive command and the download are
\* issued by Collect after lightenSnapshot has returned; and no path is the
\* target of two removals in a run.
RemovalTargetsAreDisjoint ==
    \A h \in Hosts :
        /\ pc[h] = "blocks" =>
            /\ Len(ops[h]) >= 3
            /\ ops[h][3].op = "list"
            /\ \A i \in DOMAIN ops[h] :
                i > 3 =>
                    /\ ops[h][i].op \in {"meta", "rm"}
                    /\ ops[h][i].path \in VisitedBlocks(h)
                    /\ ops[h][i].path \notin {SnapshotDirOf(h), ArchivePath}
        /\ \A i \in DOMAIN ops[h] :
            (\/ ops[h][i].op \in {"tar", "receive"}
             \/ ops[h][i].op = "rm" /\ ops[h][i].path \in {SnapshotDirOf(h), ArchivePath}) =>
                /\ pc[h] \notin {"list", "blocks"}
                /\ blocks[h] = <<>>
                /\ \A j \in DOMAIN ops[h] :
                    (ops[h][j].op \in {"list", "meta"} \/ (j \in Removals(h) /\ Stage(h, ops[h][j]) = 4))
                        => j < i
        /\ \A i \in Removals(h) : CallsOn(h, "rm", ops[h][i].path) = {i}

\* an archiving run has returned after four removals: two blocks, the
\* snapshot directory and the archive
FourRemovalsWitness ==
    \E h \in Hosts :
        /\ pc[h] = "done"
        /\ Cardinality(Removals(h)) = 4
        /\ RemovalIssued(h, SnapshotDirOf(h))
        /\ RemovalIssued(h, ArchivePath)

(***************************************************************************)
(* C19                                                                     *)
(***************************************************************************)
CallsOf(h, op) == {i \in DOMAIN ops[h] : ops[h][i].op = op}

\* what a run may have issued at any time
WithinBudget(h) ==
    /\ \A op \in {"connect", "create", "list", "tar", "receive"} :
        Cardinality(CallsOf(h, op)) <= 1
    /\ \A i \in CallsOf(h, "meta") : CallsOn(h, "meta", ops[h][i].path) = {i}
    /\ \A i \in Removals(h) : CallsOn(h, "rm", ops[h][i].path) = {i}
    /\ \A i \in Removals(h) :
        Stage(h, ops[h][i]) = 4 => CallsOn(h, "meta", ops[h][i].path) # {}
    /\ Cardinality({i \in Removals(h) : Stage(h, ops[h][i]) # 4}) <= 2
    /\ pc[h] = "blocks" =>
        /\ Cardinality(CallsOf(h, "meta")) = index[h]
        /\ index[h] <= Len(blocks[h])
    /\ Cardinality(CallsOf(h, "meta")) <= MaxBlocks

\* C19: when every agent call returns, a run that was started returns
\* (success or an error); and all along it has issued at most one connect,
\* snapshot request, listing, archive command and download, at most one
\* metadata read and one removal per listed block, and at most two removals
\* besides those of blocks.
RunTerminatesWithinBudget ==
    /\ [](\A h \in Hosts : WithinBudget(h))
    /\ \A h \in Hosts : (pc[h] = "connect") ~> (pc[h] = "done")

\* a run has returned after the most calls it can issue: every listed block
\* read and removed, the archive command, the download and two removals
LongestRunWitness ==
    \E h \in Hosts :
        /\ pc[h] = "done"
        /\ Len(ops[h]) = 7 + 2 * MaxBlocks
        /\ Cardinality(CallsOf(h, "meta")) = MaxBlocks
        /\ Cardinality(Removals(h)) = MaxBlocks + 2

====
